---- MODULE Spec2Model ----
(***************************************************************************)
(* Trading journal: the CSV-backed Flask application (src/test.py lines    *)
(* 1-119, duplicated in src/unnamed/part_000) and the summary computations  *)
(* of the server (calculate_summary) and of the browser clients             *)
(* (updateSummary in src/test.py and src/test2.py); POST / handlers that    *)
(* interleave (SpecConcurrent); and the document-store clients, the page    *)
(* scripts of src/test.py and src/test2.py with Firebase Auth and Firestore *)
(* (SpecClient, SpecClientDelivered).                                       *)
(*                                                                         *)
(* Text is modelled as a sequence of one-character strings, so that the     *)
(* conversions of the code (str(int), pd.to_numeric, parseFloat, the .2f    *)
(* format, toFixed) are computed character by character.  P/L values are    *)
(* integers, a cell that may be NaN is a record [nan, v]; the rates are     *)
(* computed in binary floating point, as the code computes them.            *)
(***************************************************************************)
EXTENDS Integers, Sequences, FiniteSets, TLC

VARIABLES
    DATA_FILE,      \* the CSV file: NoFile, or its rows (first row read as header)
    response,       \* what the last request handled by index() returned
    data,           \* the record list handed to the summary functions
    summary_data,   \* outcome of the last calculate_summary(data) call
    summary_dom,    \* what the last updateSummary(trades) call left in the page
    rates,          \* counts handed to the rate computation, and its results
    handlers,       \* the POST / handlers that run concurrently
    auth,           \* Firebase Auth as the browser client sees it
    page,           \* the page of the browser client and its script's variables
    db              \* Firestore: the trades collections, listeners, requests

client == <<auth, page, db>>

vars ==
    <<DATA_FILE, response, data, summary_data, summary_dom, rates, handlers,
      auth, page, db>>

(***************************************************************************)
(* Bounds of the model.                                                     *)
(***************************************************************************)
MaxLen == 3         \* longest record list handed to the summary functions
MaxRows == 4        \* most lines (header included) the data file grows to
MaxTrades == 160    \* most trades counted by the rate computation

(***************************************************************************)
(* Text and numbers.                                                        *)
(***************************************************************************)
Digit == {"0", "1", "2", "3", "4", "5", "6", "7", "8", "9"}

DigitVal(c) ==
    CASE c = "0" -> 0 [] c = "1" -> 1 [] c = "2" -> 2 [] c = "3" -> 3
      [] c = "4" -> 4 [] c = "5" -> 5 [] c = "6" -> 6 [] c = "7" -> 7
      [] c = "8" -> 8 [] c = "9" -> 9

DigitChar(d) ==
    CASE d = 0 -> "0" [] d = 1 -> "1" [] d = 2 -> "2" [] d = 3 -> "3"
      [] d = 4 -> "4" [] d = 5 -> "5" [] d = 6 -> "6" [] d = 7 -> "7"
      [] d = 8 -> "8" [] d = 9 -> "9"

RECURSIVE DigitsVal(_)
DigitsVal(s) ==
    IF s = <<>> THEN 0
    ELSE 10 * DigitsVal(SubSeq(s, 1, Len(s) - 1)) + DigitVal(s[Len(s)])

AllDigits(s) == \A i \in 1..Len(s) : s[i] \in Digit

\* str(n) of a Python int n >= 0 (the Sl No. written by csv.DictWriter).
RECURSIVE str(_)
str(n) ==
    IF n < 10 THEN <<DigitChar(n)>>
    ELSE str(n \div 10) \o <<DigitChar(n % 10)>>

Num(n) == [nan |-> FALSE, v |-> n]
NaN == [nan |-> TRUE, v |-> 0]

Sign(s) == IF Len(s) > 0 /\ s[1] = "-" THEN -1 ELSE 1
Unsigned(s) == IF Len(s) > 0 /\ s[1] \in {"+", "-"} THEN Tail(s) ELSE s

\* pd.to_numeric(..., errors='coerce') on one cell holding text: the whole
\* text must be a numeric literal (here: an optionally signed run of
\* digits), anything else is coerced to NaN.
to_numeric(s) ==
    LET body == Unsigned(s)
    IN  IF Len(body) > 0 /\ AllDigits(body)
        THEN Num(Sign(s) * DigitsVal(body))
        ELSE NaN

\* Series.fillna(0); the variant leaves NaN in the column.
fillna_omitted(x) == x

fillna(x) == IF x.nan THEN Num(0) ELSE x

\* JavaScript parseFloat: the longest prefix that is a numeric literal,
\* NaN when there is none.
parseFloat(s) ==
    LET body == Unsigned(s)
        n == IF body = <<>> THEN 0
             ELSE CHOOSE k \in 0..Len(body) :
                    /\ AllDigits(SubSeq(body, 1, k))
                    /\ (k < Len(body) => body[k + 1] \notin Digit)
    IN  IF n = 0 THEN NaN ELSE Num(Sign(s) * DigitsVal(SubSeq(body, 1, n)))

\* Two decimals of a value given in hundredths h >= 0.
Hundredths(h) ==
    str(h \div 100) \o <<".", DigitChar((h % 100) \div 10), DigitChar(h % 10)>>

(***************************************************************************)
(* Binary floating point (IEEE 754 double), as far as the rates need it.    *)
(* A natural number of any size is the sequence of its digits in base       *)
(* 2^16, least significant first, without leading zeros.  A double is       *)
(* [neg, m, e]: the value (-1)^neg * m * 2^e, m a natural number below      *)
(* 2^53 or so; the results of / and * are rounded to 53 significant bits,   *)
(* a tie going to the even mantissa.                                        *)
(***************************************************************************)
LIMB == 2 ^ 16
MANT_BITS == 53

RECURSIVE Norm(_)
Norm(a) ==
    IF a # <<>> /\ a[Len(a)] = 0 THEN Norm(SubSeq(a, 1, Len(a) - 1)) ELSE a

Nat1(n) == IF n = 0 THEN <<>> ELSE <<n>>

\* a * k and a + c for small k, c.
RECURSIVE MulStep(_, _, _, _)
MulStep(a, k, i, carry) ==
    IF i > Len(a) THEN Nat1(carry)
    ELSE LET cur == a[i] * k + carry
         IN  <<cur % LIMB>> \o MulStep(a, k, i + 1, cur \div LIMB)

MulSmall(a, k) == Norm(MulStep(a, k, 1, 0))
AddSmall(a, c) == Norm(MulStep(a, 1, 1, c))

\* a divided by a small k: quotient and remainder.
RECURSIVE DivStep(_, _, _, _)
DivStep(a, k, i, rem) ==
    IF i = 0 THEN [q |-> <<>>, r |-> rem]
    ELSE LET cur == rem * LIMB + a[i]
             low == DivStep(a, k, i - 1, cur % k)
         IN  [q |-> low.q \o <<cur \div k>>, r |-> low.r]

DivSmall(a, k) ==
    LET d == DivStep(a, k, Len(a), 0) IN [q |-> Norm(d.q), r |-> d.r]

IsOdd(a) == a # <<>> /\ a[1] % 2 = 1

RECURSIVE BitLenSmall(_)
BitLenSmall(n) == IF n = 0 THEN 0 ELSE 1 + BitLenSmall(n \div 2)

BitLen(a) ==
    IF a = <<>> THEN 0 ELSE 16 * (Len(a) - 1) + BitLenSmall(a[Len(a)])

\* a shifted right by n bits; sticky tells whether a bit that was dropped
\* (or a remainder dropped before) was set.
RECURSIVE ShiftRightSticky(_, _, _)
ShiftRightSticky(a, n, sticky) ==
    IF n = 0 THEN [q |-> a, sticky |-> sticky]
    ELSE LET k == IF n < 15 THEN n ELSE 15
             d == DivSmall(a, 2 ^ k)
         IN  ShiftRightSticky(d.q, n - k, sticky \/ d.r # 0)

\* a * 2^(-n) rounded to an integer: to the nearest, a tie going to the even
\* one (ties_up = FALSE) or to the larger one (ties_up = TRUE).
RoundShift(a, n, sticky, ties_up) ==
    IF n = 0 THEN a
    ELSE LET s == ShiftRightSticky(a, n - 1, sticky)
             d == DivSmall(s.q, 2)
         IN  IF d.r = 1 /\ (s.sticky \/ ties_up \/ IsOdd(d.q))
             THEN AddSmall(d.q, 1)
             ELSE d.q

\* (a with the sticky remainder) * 2^e rounded to MANT_BITS significant bits.
RoundToDouble(neg, a, e, sticky) ==
    LET sh == IF BitLen(a) > MANT_BITS THEN BitLen(a) - MANT_BITS ELSE 0
    IN  [neg |-> neg, m |-> RoundShift(a, sh, sticky, FALSE), e |-> e + sh]

\* float(n) of an integer of small magnitude: exact.
FromInt(n) == [neg |-> n < 0, m |-> Nat1(IF n < 0 THEN -n ELSE n), e |-> 0]

\* a / b of two counts 0 <= a, 0 < b < 2^15 (Python int / int, JavaScript
\* number / number): the quotient to 80 fractional bits and whether a
\* remainder was left, rounded.
TrueDivide(a, b) ==
    LET d == DivSmall(Norm(<<0, 0, 0, 0, 0, a>>), b)
    IN  RoundToDouble(FALSE, d.q, -80, d.r # 0)

\* x * k for a double x and a small integer k > 0.
Times(x, k) == RoundToDouble(x.neg, MulSmall(x.m, k), x.e, FALSE)

\* The value of a natural number that fits a machine integer.
RECURSIVE ToInt(_)
ToInt(a) == IF a = <<>> THEN 0 ELSE a[1] + LIMB * ToInt(Tail(a))

\* |x| * 100 rounded to an integer, for x.e <= 0.
RoundedHundredths(x, ties_up) ==
    ToInt(RoundShift(MulSmall(x.m, 100), -x.e, FALSE, ties_up))

\* Python f"{x:.2f}" of a double x >= 0: the decimal expansion of the exact
\* value of x, rounded to two places, a tie going to the even digit.
\* The variant cuts the digits after the second decimal off.
format_2f_truncating(x) ==
    Hundredths(ToInt(ShiftRightSticky(MulSmall(x.m, 100), -x.e, FALSE).q))

format_2f(x) == Hundredths(RoundedHundredths(x, FALSE))

\* JavaScript x.toFixed(2): the sign, then n / 100 for the integer n that
\* makes n / 100 - |x| closest to zero, the larger n when there are two.
toFixed(x) ==
    (IF x.neg /\ x.m # <<>> THEN <<"-">> ELSE <<>>)
        \o Hundredths(RoundedHundredths(x, TRUE))

(***************************************************************************)
(* The 14 column names of the header row (src/test.py lines 20-24).         *)
(***************************************************************************)
COL_SL_NO == <<"S", "l", " ", "N", "o", ".">>
COL_SCRIPT_NAME == <<"S", "c", "r", "i", "p", "t", " ", "N", "a", "m", "e">>
COL_TIME == <<"T", "i", "m", "e">>
COL_LONG_SHORT == <<"L", "o", "n", "g", "/", "S", "h", "o", "r", "t">>
COL_ENTRY_PRICE == <<"E", "n", "t", "r", "y", " ", "P", "r", "i", "c", "e">>
COL_SL == <<"S", "L">>
COL_QUANTITY == <<"Q", "u", "a", "n", "t", "i", "t", "y">>
COL_ACCOUNT_RISKED ==
    <<"%", " ", "o", "f", " ", "A", "c", "c", "o">>
        \o <<"u", "n", "t", " ", "R", "i", "s", "k", "e", "d">>
COL_TARGET_PRICE ==
    <<"T", "a", "r", "g", "e", "t">>
        \o <<" ", "P", "r", "i", "c", "e">>
COL_EXIT_PRICE == <<"E", "x", "i", "t", " ", "P", "r", "i", "c", "e">>
COL_EXIT_TIME == <<"E", "x", "i", "t", " ", "T", "i", "m", "e">>
COL_RR == <<"R", "/", "R">>
COL_PL == <<"P", "/", "L">>
COL_FOLLOW_RULES ==
    <<"D", "i", "d", " ", "I", " ", "f", "o", "l", "l", "o">>
        \o <<"w", "d", " ", "M", "Y", " ", "R", "U", "E", "S", "?">>

HEADER ==
    <<COL_SL_NO, COL_SCRIPT_NAME, COL_TIME, COL_LONG_SHORT, COL_ENTRY_PRICE,
      COL_SL, COL_QUANTITY, COL_ACCOUNT_RISKED, COL_TARGET_PRICE,
      COL_EXIT_PRICE, COL_EXIT_TIME, COL_RR, COL_PL, COL_FOLLOW_RULES>>

(***************************************************************************)
(* calculate_summary (src/test.py lines 35-80).  A record is a function     *)
(* from column names to text, as csv.DictReader returns it.                 *)
(***************************************************************************)
Summary(total, winning, losing, even, win_rate, lose_rate, win, loss, pl) ==
    ("Total Number of Trades" :> total)
    @@ ("Total Number of Winning Trades" :> winning)
    @@ ("Total Number of Losing Trades" :> losing)
    @@ ("Total Number of Break Even Trades" :> even)
    @@ ("Total Number of Win Rate in %" :> win_rate)
    @@ ("Total Number of Lose Rate in %" :> lose_rate)
    @@ ("Largest Winning Trade" :> win)
    @@ ("Largest Losing Trade" :> loss)
    @@ ("Total P/L" :> pl)

\* Outcome of a call: the value returned, or the exception that left it.
Returned(value) == [exc |-> "", value |-> value]
Raised(exc) == [exc |-> exc, value |-> <<>>]

\* pd.DataFrame(data): a column for every key of any record; a record that
\* lacks the key has a missing cell there.  The frame holds copies.
Cell(rec, col) ==
    IF col \in DOMAIN rec THEN [missing |-> FALSE, text |-> rec[col]]
    ELSE [missing |-> TRUE, text |-> <<>>]

DataFrame(d) ==
    [col \in UNION {DOMAIN d[i] : i \in 1..Len(d)} |->
        [i \in 1..Len(d) |-> Cell(d[i], col)]]

\* pd.to_numeric(column, errors='coerce').fillna(0): a missing cell is NaN.
NumericColumn(column) ==
    [i \in DOMAIN column |->
        fillna(IF column[i].missing THEN NaN ELSE to_numeric(column[i].text))]

\* len(df[df['P/L'] ? 0]) for the three comparisons of the code; a
\* comparison with NaN is False.
CountGt(pl) == Cardinality({i \in DOMAIN pl : ~pl[i].nan /\ pl[i].v > 0})
CountLt(pl) == Cardinality({i \in DOMAIN pl : ~pl[i].nan /\ pl[i].v < 0})
CountEq(pl) == Cardinality({i \in DOMAIN pl : ~pl[i].nan /\ pl[i].v = 0})

\* Series.max(), Series.min(), Series.sum(): NaN cells are skipped.
Values(pl) == {pl[i].v : i \in {j \in DOMAIN pl : ~pl[j].nan}}
SeriesMax(pl) == CHOOSE m \in Values(pl) : \A x \in Values(pl) : x <= m
SeriesMin(pl) == CHOOSE m \in Values(pl) : \A x \in Values(pl) : x >= m
RECURSIVE SumTo(_, _)
SumTo(pl, n) ==
    IF n = 0 THEN 0
    ELSE SumTo(pl, n - 1) + (IF pl[n].nan THEN 0 ELSE pl[n].v)
SeriesSum(pl) == SumTo(pl, Len(pl))

\* largest_win and largest_loss (lines 65-66): the column's extreme, guarded
\* by the count of winners / losers.  The variant drops the guard.
largest_win_unguarded(pl) == SeriesMax(pl)

largest_win(pl) == IF CountGt(pl) > 0 THEN SeriesMax(pl) ELSE 0

\* The variant repeats line 65 for the loss.
largest_loss_as_max(pl) == IF CountLt(pl) > 0 THEN SeriesMax(pl) ELSE 0

largest_loss(pl) == IF CountLt(pl) > 0 THEN SeriesMin(pl) ELSE 0

\* win_rate and lose_rate (lines 62-63).
win_rate(winning_trades, total_trades) ==
    IF total_trades > 0
    THEN Times(TrueDivide(winning_trades, total_trades), 100)
    ELSE FromInt(0)

lose_rate(losing_trades, total_trades) ==
    IF total_trades > 0
    THEN Times(TrueDivide(losing_trades, total_trades), 100)
    ELSE FromInt(0)

\* The dictionary returned for "not data" (lines 40-51).
EMPTY_SUMMARY_int_rates == Summary(0, 0, 0, 0, <<"0">>, <<"0">>, 0, 0, 0)

EMPTY_SUMMARY ==
    Summary(0, 0, 0, 0, <<"0", ".", "0", "0">>, <<"0", ".", "0", "0">>,
            0, 0, 0)

\* calculate_summary.  The variant has no "if not data" branch (lines 40-51):
\* the empty frame has no 'P/L' column.
calculate_summary_without_empty_branch(d) ==
    LET df == DataFrame(d)
    IN  IF d = <<>> \/ COL_PL \notin DOMAIN df
        THEN Raised("KeyError")
        ELSE LET pl == NumericColumn(df[COL_PL])
             IN  Returned(Summary(Len(pl), CountGt(pl), CountLt(pl),
                                  CountEq(pl),
                                  format_2f(win_rate(CountGt(pl), Len(pl))),
                                  format_2f(lose_rate(CountLt(pl), Len(pl))),
                                  largest_win(pl), largest_loss(pl),
                                  SeriesSum(pl)))

calculate_summary(d) ==
    IF d = <<>>
    THEN Returned(EMPTY_SUMMARY)
    ELSE LET df == DataFrame(d)
         IN  IF COL_PL \notin DOMAIN df
             THEN Raised("KeyError")
             ELSE LET pl == NumericColumn(df[COL_PL])
                      total_trades == Len(pl)
                      winning_trades == CountGt(pl)
                      losing_trades == CountLt(pl)
                      break_even_trades == CountEq(pl)
                      total_pl == SeriesSum(pl)
                 IN  Returned(Summary(total_trades, winning_trades,
                                      losing_trades, break_even_trades,
                                      format_2f(win_rate(winning_trades,
                                                         total_trades)),
                                      format_2f(lose_rate(losing_trades,
                                                          total_trades)),
                                      largest_win(pl), largest_loss(pl),
                                      total_pl))

\* The list object passed to calculate_summary, as the call leaves it: the
\* frame is built from copies and only the frame's column is assigned
\* (lines 53-55).  The variant writes the numeric column into the records.
data_after_call_in_place(d) ==
    IF d = <<>> \/ COL_PL \notin DOMAIN DataFrame(d) THEN d
    ELSE [i \in 1..Len(d) |->
            [k \in DOMAIN d[i] \cup {COL_PL} |->
                IF k = COL_PL
                THEN LET x == NumericColumn(DataFrame(d)[COL_PL])[i]
                     IN  (IF x.v < 0 THEN <<"-">> ELSE <<>>)
                            \o str(IF x.v < 0 THEN -x.v ELSE x.v)
                ELSE d[i][k]]]

data_after_call(d) == d

(***************************************************************************)
(* updateSummary of the browser clients (src/test.py lines 651-668,         *)
(* src/test2.py lines 443-460: the same text).  A trade is a document, a    *)
(* function from field names to values; t.pl of a document without the      *)
(* field is undefined.                                                      *)
(***************************************************************************)
Undefined == [nan |-> TRUE, v |-> 0, undefined |-> TRUE]

FieldPl(t) == IF "pl" \in DOMAIN t THEN t["pl"] ELSE Undefined

\* a > b and a < b of JavaScript for a number, NaN or undefined against a
\* number: false unless a is a number.
JsGt(a, b) == ~a.nan /\ a.v > b
JsLt(a, b) == ~a.nan /\ a.v < b
\* (a || 0): NaN, undefined and 0 are falsy.
JsOrZero(a) == IF a.nan THEN 0 ELSE a.v

RECURSIVE ReduceSum(_, _)
ReduceSum(ts, n) ==
    IF n = 0 THEN 0 ELSE ReduceSum(ts, n - 1) + JsOrZero(FieldPl(ts[n]))

RECURSIVE ReduceMax(_, _)
ReduceMax(ts, n) ==
    IF n = 0 THEN 0
    ELSE LET max == ReduceMax(ts, n - 1)
         IN  IF JsGt(FieldPl(ts[n]), max) THEN FieldPl(ts[n]).v ELSE max

RECURSIVE ReduceMin(_, _)
ReduceMin(ts, n) ==
    IF n = 0 THEN 0
    ELSE LET min == ReduceMin(ts, n - 1)
         IN  IF JsLt(FieldPl(ts[n]), min) THEN FieldPl(ts[n]).v ELSE min

\* The summary elements of the page as the HTML ships them
\* (src/test.py lines 206-219, src/test2.py lines 81-94).
InitialDom ==
    ("total-trades" :> <<"0">>)
    @@ ("win-rate" :> <<"0", ".", "0", "0", "%">>)
    @@ ("total-pl" :> <<"0", ".", "0", "0">>)
    @@ ("total-pl-class" :> "text-gray-600")
    @@ ("largest-win" :> <<"0", ".", "0", "0">>)
    @@ ("largest-loss" :> <<"0", ".", "0", "0">>)

\* An array argument, and the object literal {} the logout handler passes.
Array(items) == [kind |-> "array", items |-> items]
EmptyObject == [kind |-> "object", items |-> <<>>]

\* updateSummary(trades) on a page whose summary elements hold dom.  On {}
\* trades.length is undefined and trades.filter is not a function: the call
\* throws before it writes anything.
updateSummary(trades, dom) ==
    IF trades.kind # "array"
    THEN [exc |-> "TypeError", dom |-> dom]
    ELSE LET ts == trades.items
             totalTrades == Len(ts)
             winningTrades ==
                 Cardinality({i \in 1..Len(ts) : JsGt(FieldPl(ts[i]), 0)})
             losingTrades ==
                 Cardinality({i \in 1..Len(ts) : JsLt(FieldPl(ts[i]), 0)})
             totalPL == ReduceSum(ts, Len(ts))
             winRate == IF totalTrades > 0
                        THEN toFixed(Times(TrueDivide(winningTrades,
                                                      totalTrades), 100))
                        ELSE <<"0", ".", "0", "0">>
             largestWin == toFixed(FromInt(ReduceMax(ts, Len(ts))))
             largestLoss == toFixed(FromInt(ReduceMin(ts, Len(ts))))
         IN  [exc |-> "",
              dom |-> ("total-trades" :> str(totalTrades))
                      @@ ("win-rate" :> winRate \o <<"%">>)
                      @@ ("total-pl" :> toFixed(FromInt(totalPL)))
                      @@ ("total-pl-class" :>
                            IF totalPL > 0 THEN "text-green-600"
                            ELSE IF totalPL < 0 THEN "text-red-600"
                            ELSE "text-gray-600")
                      @@ ("largest-win" :> largestWin)
                      @@ ("largest-loss" :> largestLoss)]

(***************************************************************************)
(* The CSV store and the request handler (src/test.py lines 14-33, 82-119). *)
(* The data file is [exists, rows]; a row is the sequence of its values.    *)
(***************************************************************************)
NoFile == [exists |-> FALSE, rows |-> <<>>]
File(rows) == [exists |-> TRUE, rows |-> rows]

\* Module start-up: the file is created with the header row only when it
\* does not exist.
EnsureDataFile(file) == IF file.exists THEN file ELSE File(<<HEADER>>)

Min(a, b) == IF a < b THEN a ELSE b

\* dict(zip(fieldnames, row)): a later column of the same name wins.
DictRow(fieldnames, row) ==
    LET n == Min(Len(fieldnames), Len(row))
    IN  [k \in {fieldnames[j] : j \in 1..n} |->
            row[CHOOSE j \in 1..n :
                    /\ fieldnames[j] = k
                    /\ \A i \in 1..n : fieldnames[i] = k => i <= j]]

\* csv.DictReader: the first row gives the field names, whatever it holds;
\* the rows after it are the records; empty rows are skipped.
DictReader(rows) ==
    IF rows = <<>> THEN <<>>
    ELSE LET body == SelectSeq(Tail(rows), LAMBDA r : r # <<>>)
         IN  [i \in 1..Len(body) |-> DictRow(rows[1], body[i])]

\* get_journal_data(): a missing file reads as no records.
get_journal_data(file) ==
    IF file.exists THEN DictReader(file.rows) ELSE <<>>

\* The keys index() reads from request.form, in the order it reads them.
FORM_FIELDS ==
    <<"script_name", "time", "long_short", "entry_price", "sl", "quantity",
      "account_risked", "target_price", "exit_price", "exit_time", "rr", "pl",
      "follow_rules">>

\* sl_no = len(get_journal_data()) + 1 (line 89).  The variant counts the
\* lines of the file, header included.
sl_no_counting_lines(file) == Len(file.rows) + 1

next_sl_no(file) == Len(get_journal_data(file)) + 1

\* new_entry of index(): the Sl No., then the 13 form values in that order.
\* The variant lists "P/L" before "R/R".
new_entry_pl_before_rr(sl_no, form) ==
    <<str(sl_no)>>
        \o [j \in 1..Len(FORM_FIELDS) |->
              form[FORM_FIELDS[IF j = 11 THEN 12 ELSE IF j = 12 THEN 11 ELSE j]]]

\* The column each form key is stored under (the keys of new_entry, lines
\* 91-104).
COLUMN_OF ==
    ("script_name" :> COL_SCRIPT_NAME)
    @@ ("time" :> COL_TIME)
    @@ ("long_short" :> COL_LONG_SHORT)
    @@ ("entry_price" :> COL_ENTRY_PRICE)
    @@ ("sl" :> COL_SL)
    @@ ("quantity" :> COL_QUANTITY)
    @@ ("account_risked" :> COL_ACCOUNT_RISKED)
    @@ ("target_price" :> COL_TARGET_PRICE)
    @@ ("exit_price" :> COL_EXIT_PRICE)
    @@ ("exit_time" :> COL_EXIT_TIME)
    @@ ("rr" :> COL_RR)
    @@ ("pl" :> COL_PL)
    @@ ("follow_rules" :> COL_FOLLOW_RULES)

new_entry(sl_no, form) ==
    <<str(sl_no)>> \o [j \in 1..Len(FORM_FIELDS) |-> form[FORM_FIELDS[j]]]

\* open(DATA_FILE, 'a') creates a missing file; writer.writerow appends the
\* values of new_entry as one row.  No header is written here.  The variant
\* opens the file with mode 'w'.
AppendRow_truncating(file, row) == File(<<row>>)

AppendRow(file, row) == File(file.rows \o <<row>>)

NotCalled == [exc |-> "not called", value |-> <<>>]

\* The rate computation has not run.
NoRates ==
    [called |-> FALSE, winning_trades |-> 0, losing_trades |-> 0,
     total_trades |-> 0, win_rate |-> <<>>, lose_rate |-> <<>>,
     winRate |-> <<>>]

\* No POST / handler is running.
HANDLERS == {1, 2}
NoHandlers == [h \in HANDLERS |-> [pc |-> "idle", sl_no |-> 0, form |-> <<>>]]

\* No browser has opened the client page.
PageNotOpened ==
    /\ auth = [currentUser |-> "null"]
    /\ page = [variant |-> ""]
    /\ db = [store |-> <<>>]

\* The forms submitted: every field present, or exactly one missing.
FORM_VALUES ==
    ("script_name" :> <<"T", "C", "S">>)
    @@ ("time" :> <<"9", ":", "1", "5">>)
    @@ ("long_short" :> <<"L", "o", "n", "g">>)
    @@ ("entry_price" :> <<"1", "0", "1">>)
    @@ ("sl" :> <<"9", "9">>)
    @@ ("quantity" :> <<"1", "0">>)
    @@ ("account_risked" :> <<"1", "%">>)
    @@ ("target_price" :> <<"1", "1", "1">>)
    @@ ("exit_price" :> <<"1", "1", "0">>)
    @@ ("exit_time" :> <<"1", "5", ":", "0", "0">>)
    @@ ("rr" :> <<"1", ":", "2">>)
    @@ ("pl" :> <<"9", "0">>)
    @@ ("follow_rules" :> <<"Y", "e", "s">>)
TCS == <<"T", "C", "S">>
SCRIPT_NAMES == {TCS, COL_PL}
FORM_PL == {<<"1", "0", "0">>, <<"-", "5", "0">>, <<"a">>}

FullForm(script_name, pl) ==
    [f \in {FORM_FIELDS[j] : j \in 1..Len(FORM_FIELDS)} |->
        IF f = "script_name" THEN script_name
        ELSE IF f = "pl" THEN pl
        ELSE FORM_VALUES[f]]

Without(form, field) == [f \in DOMAIN form \ {field} |-> form[f]]

\* POST /: request.form[key] of a missing key raises BadRequestKeyError
\* (HTTP 400) while new_entry is being built, before the file is opened.
\* data and summary_data are the journal_data and summary_data of the
\* request being handled: a POST computes neither.
\* The file after a request whose form lacks a field: the KeyError is raised
\* inside the dict display of lines 90-105, before open() of line 108.  The
\* variant writes the values it had collected up to the missing key.
BadRequestKeyError_after_partial_write(file, sl_no, form) ==
    AppendRow(file,
              <<str(sl_no)>> \o
                 [j \in 1..(CHOOSE n \in 0..Len(FORM_FIELDS) :
                               /\ \A i \in 1..n : FORM_FIELDS[i] \in DOMAIN form
                               /\ n < Len(FORM_FIELDS)
                                    => FORM_FIELDS[n + 1] \notin DOMAIN form)
                    |-> form[FORM_FIELDS[j]]])

BadRequestKeyError(file, sl_no, form) == file

index_POST(form) ==
    LET sl_no == next_sl_no(DATA_FILE)
    IN  /\ Len(DATA_FILE.rows) < MaxRows
        /\ IF \E j \in 1..Len(FORM_FIELDS) : FORM_FIELDS[j] \notin DOMAIN form
           THEN /\ response' = [method |-> "POST", status |-> 400]
                /\ DATA_FILE' = BadRequestKeyError(DATA_FILE, sl_no, form)
           ELSE /\ DATA_FILE' = AppendRow(DATA_FILE, new_entry(sl_no, form))
                /\ response' = [method |-> "POST", status |-> 302]
        /\ data' = <<>>
        /\ summary_data' = NotCalled
        /\ UNCHANGED <<summary_dom, rates, handlers, client>>

\* GET /: read the journal, summarise it, render the page.  An exception of
\* calculate_summary leaves the handler as HTTP 500.
index_GET ==
    LET journal_data == get_journal_data(DATA_FILE)
        result == calculate_summary(journal_data)
    IN  /\ data' = data_after_call(journal_data)
        /\ summary_data' = result
        /\ response' = [method |-> "GET",
                        status |-> IF result.exc = "" THEN 200 ELSE 500]
        /\ UNCHANGED <<DATA_FILE, summary_dom, rates, handlers, client>>

\* The application process is started again.
Startup ==
    /\ DATA_FILE' = EnsureDataFile(DATA_FILE)
    /\ DATA_FILE' # DATA_FILE
    /\ UNCHANGED <<response, data, summary_data, summary_dom, rates, handlers,
                   client>>

\* The data file is removed while the application runs (the case
\* get_journal_data catches as FileNotFoundError).
RemoveDataFile ==
    /\ DATA_FILE.exists
    /\ DATA_FILE' = NoFile
    /\ UNCHANGED <<response, data, summary_data, summary_dom, rates, handlers,
                   client>>

Init ==
    /\ DATA_FILE = EnsureDataFile(NoFile)
    /\ response = [method |-> "", status |-> 0]
    /\ data = <<>>
    /\ summary_data = NotCalled
    /\ summary_dom = [exc |-> "", dom |-> InitialDom]
    /\ rates = NoRates
    /\ handlers = NoHandlers
    /\ PageNotOpened

Next ==
    \/ \E s \in SCRIPT_NAMES, pl \in FORM_PL : index_POST(FullForm(s, pl))
    \/ \E j \in 1..Len(FORM_FIELDS) :
          index_POST(Without(FullForm(TCS, <<"1", "0", "0">>), FORM_FIELDS[j]))
    \/ index_GET
    \/ Startup
    \/ RemoveDataFile

Spec == Init /\ [][Next]_vars

(***************************************************************************)
(* Concurrent POST / handlers (src/test.py lines 87-110).  The server runs  *)
(* index() in several threads or processes and the file is not locked: a    *)
(* handler reads the row count (line 89) and builds new_entry with it       *)
(* (lines 90-105) in one step, and appends the row (lines 108-110) in a      *)
(* later one.                                                               *)
(***************************************************************************)
\* The Sl No. a handler writes is the one it computed when it read the file.
\* The variant counts the rows again while it holds the file open.
entry_sl_no_recounted(sl_no, file) == next_sl_no(file)

entry_sl_no(sl_no, file) == sl_no

InFlight == {h \in HANDLERS : handlers[h].pc # "idle"}

POST_Receive(h, form) ==
    /\ handlers[h].pc = "idle"
    /\ Len(DATA_FILE.rows) + Cardinality(InFlight) < MaxRows
    /\ handlers' = [handlers EXCEPT ![h] = [pc |-> "read", sl_no |-> 0,
                                            form |-> form]]
    /\ UNCHANGED <<DATA_FILE, response, data, summary_data, summary_dom, rates,
                   client>>

POST_ReadCount(h) ==
    /\ handlers[h].pc = "read"
    /\ handlers' = [handlers EXCEPT ![h].pc = "append",
                                    ![h].sl_no = next_sl_no(DATA_FILE)]
    /\ UNCHANGED <<DATA_FILE, response, data, summary_data, summary_dom, rates,
                   client>>

POST_Append(h) ==
    /\ handlers[h].pc = "append"
    /\ DATA_FILE' =
          AppendRow(DATA_FILE,
                    new_entry(entry_sl_no(handlers[h].sl_no, DATA_FILE),
                              handlers[h].form))
    /\ response' = [method |-> "POST", status |-> 302]
    /\ handlers' = [handlers EXCEPT ![h] = NoHandlers[h]]
    /\ UNCHANGED <<data, summary_data, summary_dom, rates, client>>

NextConcurrent ==
    \/ \E h \in HANDLERS, s \in SCRIPT_NAMES, pl \in FORM_PL :
          POST_Receive(h, FullForm(s, pl))
    \/ \E h \in HANDLERS : POST_ReadCount(h)
    \/ \E h \in HANDLERS : POST_Append(h)

SpecConcurrent == Init /\ [][NextConcurrent]_vars

(***************************************************************************)
(* The summary functions on their own: every record list up to MaxLen over  *)
(* the P/L texts below, with and without the P/L key, is handed to          *)
(* calculate_summary and, as the trades a client would hold for the same    *)
(* form inputs, to updateSummary.                                           *)
(***************************************************************************)
PL_TEXTS ==
    {<<"1", "0", "0">>, <<"7">>, <<"-", "5", "0">>, <<"-", "3">>, <<"0">>,
     <<"a">>, <<>>, <<"7", "a">>}

\* A record that holds a P/L text, and one in which the key is missing.
RecordWith(pl) == (COL_SCRIPT_NAME :> TCS) @@ (COL_PL :> pl)
RecordWithout == (COL_SCRIPT_NAME :> TCS)

RECORDS == {RecordWith(pl) : pl \in PL_TEXTS} \cup {RecordWithout}

\* The document the submit handler of a client builds from the same form
\* value (pl: parseFloat(formData.get('pl'))); no pl field when the record
\* has no P/L.
tradeData(rec) ==
    IF COL_PL \in DOMAIN rec
    THEN ("script_name" :> rec[COL_SCRIPT_NAME]) @@ ("pl" :> parseFloat(rec[COL_PL]))
    ELSE ("script_name" :> rec[COL_SCRIPT_NAME])

Trades(d) == Array([i \in 1..Len(d) |-> tradeData(d[i])])

InitSummary ==
    /\ data \in UNION {[1..n -> RECORDS] : n \in 0..MaxLen}
    /\ DATA_FILE = EnsureDataFile(NoFile)
    /\ response = [method |-> "", status |-> 0]
    /\ summary_data = NotCalled
    /\ summary_dom = [exc |-> "not called", dom |-> InitialDom]
    /\ rates = NoRates
    /\ handlers = NoHandlers
    /\ PageNotOpened

CallCalculateSummary ==
    /\ summary_data' = calculate_summary(data)
    /\ data' = data_after_call(data)
    /\ UNCHANGED <<DATA_FILE, response, summary_dom, rates, handlers, client>>

CallUpdateSummary ==
    /\ summary_dom' = updateSummary(Trades(data), summary_dom.dom)
    /\ UNCHANGED <<DATA_FILE, response, data, summary_data, rates, handlers,
                   client>>

NextSummary ==
    \/ CallCalculateSummary
    \/ CallUpdateSummary

SpecSummary == InitSummary /\ [][NextSummary]_vars

(***************************************************************************)
(* The rate computation on its own (src/test.py lines 62-63 and 74-75, and  *)
(* line 657 for the client): the counts of a journal of up to MaxTrades     *)
(* trades, none or one of them break-even, are handed to it.                *)
(***************************************************************************)
BREAK_EVEN_COUNTS == {0, 1}

InitRates ==
    /\ \E total \in 1..MaxTrades, winning \in 0..MaxTrades,
          even \in BREAK_EVEN_COUNTS :
          /\ winning + even <= total
          /\ rates = [NoRates EXCEPT !.winning_trades = winning,
                                     !.losing_trades = total - winning - even,
                                     !.total_trades = total]
    /\ DATA_FILE = EnsureDataFile(NoFile)
    /\ response = [method |-> "", status |-> 0]
    /\ data = <<>>
    /\ summary_data = NotCalled
    /\ summary_dom = [exc |-> "not called", dom |-> InitialDom]
    /\ handlers = NoHandlers
    /\ PageNotOpened

CalculateRates ==
    /\ ~rates.called
    /\ rates' =
          [rates EXCEPT
             !.called = TRUE,
             !.win_rate =
                format_2f(win_rate(rates.winning_trades, rates.total_trades)),
             !.lose_rate =
                format_2f(lose_rate(rates.losing_trades, rates.total_trades)),
             !.winRate =
                toFixed(Times(TrueDivide(rates.winning_trades,
                                         rates.total_trades), 100))]
    /\ UNCHANGED <<DATA_FILE, response, data, summary_data, summary_dom,
                   handlers, client>>

NextRates == CalculateRates

SpecRates == InitRates /\ [][NextRates]_vars

(***************************************************************************)
(* The browser clients of the document store (src/test.py lines 356-668,    *)
(* src/test2.py lines 177-472).  auth is Firebase Auth as the script sees    *)
(* it: the signed-in user, the sign-in attempts and the sign-out request in  *)
(* flight, whether it has reported its initial state and whether the last     *)
(* sign-in attempt it resolved was rejected.  page                           *)
(* is the page and the variables of its script.  db is Firestore: one trades *)
(* collection per user id, the snapshot listeners the script registered,     *)
(* the notifications and the write requests in flight.  Every callback of    *)
(* the script is one action; page.toast holds the messages that callback     *)
(* passed to showToast.                                                      *)
(***************************************************************************)
MaxRequests == 2    \* most requests the clicks of the user send to Firebase

NoUser == "null"
USERS == {"u1", "u2"}
IDS == <<"t1", "t2">>
VARIANTS == {"test.py", "test2.py"}
TOKEN_USER == "u1"  \* the user __initial_auth_token names
PL_INPUTS == {<<"-", "5", "0">>}

\* The fields the submit handler reads from the form, and those it passes
\* through parseFloat (src/test.py lines 547-562, src/test2.py lines 364-371).
TEXT_FIELDS(variant) ==
    IF variant = "test.py"
    THEN {"date", "script_name", "time", "long_short", "account_risked",
          "exit_time", "rr", "follow_rules"}
    ELSE {"script_name", "long_short", "follow_rules"}

NUMBER_FIELDS(variant) ==
    IF variant = "test.py"
    THEN {"entry_price", "sl", "quantity", "target_price", "exit_price", "pl"}
    ELSE {"entry_price", "exit_price", "pl"}

FORM_INPUTS ==
    FORM_VALUES @@ ("date" :> <<"2", "0", "2", "5", "-", "0", "1", "-", "0", "2">>)

EmptyForm == [id |-> "", pl |-> <<>>]

\* tradeData of the submit handler, with the id when the hidden input holds
\* one.
submit_tradeData(variant, form) ==
    LET fields ==
            [f \in TEXT_FIELDS(variant) \cup NUMBER_FIELDS(variant) |->
                LET text == IF f = "pl" THEN form.pl ELSE FORM_INPUTS[f]
                IN  IF f \in NUMBER_FIELDS(variant) THEN parseFloat(text)
                    ELSE text]
    IN  IF form.id # "" THEN fields @@ ("id" :> form.id) ELSE fields

\* delete trade.id
WithoutId(trade) == [f \in DOMAIN trade \ {"id"} |-> trade[f]]

\* A collection is a function from document ids to documents.
NoDocs == [id \in {} |-> <<>>]

\* tradesRef.doc(id).set(trade): the document is replaced, or created.  The
\* variant merges the fields into the stored document.
set_merging(docs, id, trade) ==
    [i \in DOMAIN docs \cup {id} |->
        IF i # id THEN docs[i]
        ELSE IF id \in DOMAIN docs THEN trade @@ docs[id] ELSE trade]

set(docs, id, trade) ==
    [i \in DOMAIN docs \cup {id} |-> IF i = id THEN trade ELSE docs[i]]

\* tradesRef.doc(id).delete()
delete(docs, id) == [i \in DOMAIN docs \ {id} |-> docs[i]]

\* The ids Firestore can give a new document of the collection.
FreeIds(docs) == {IDS[k] : k \in 1..Len(IDS)} \ DOMAIN docs

\* snapshot.forEach(doc => trades.push({ id: doc.id, ...doc.data() }))
SnapshotTrades(docs) ==
    LET ids == SelectSeq(IDS, LAMBDA i : i \in DOMAIN docs)
    IN  [k \in 1..Len(ids) |-> docs[ids[k]] @@ ("id" :> ids[k])]

\* String(x) of a number, as an input element takes it.
String(x) ==
    IF x.nan THEN <<"N", "a", "N">>
    ELSE IF x.v < 0 THEN <<"-">> \o str(-x.v) ELSE str(x.v)

showToast(p, message) == [p EXCEPT !.toast = Append(@, message)]
showApp(p) == [p EXCEPT !.timers = @ \cup {"showApp"}]
showAuth(p) == [p EXCEPT !.timers = @ \cup {"showAuth"}]
\* clearForm: tradeForm.reset(), the hidden id emptied, isEditing = false.
\* The variant leaves out the assignment to trade-id-input, which reset()
\* does not empty.
clearForm_without_id_reset(p) ==
    [p EXCEPT !.form.pl = <<>>, !.isEditing = FALSE]

clearForm(p) == [p EXCEPT !.form = EmptyForm, !.isEditing = FALSE]
renderJournal(p, userId, trades) ==
    [p EXCEPT !.journal = [userId |-> userId, trades |-> trades]]

\* editTrade(trade): test.py writes (trade.pl || ''), test2.py trade.pl.
editTrade(p, trade) ==
    LET pl == FieldPl(trade)
    IN  [p EXCEPT
           !.form = [id |-> trade["id"],
                     pl |-> IF p.variant = "test.py" /\ JsOrZero(pl) = 0
                            THEN <<>>
                            ELSE String(pl)],
           !.isEditing = TRUE]

\* setupFirestoreListener(userId): the listener is registered and Firestore
\* owes it a first snapshot.  Nothing unsubscribes a listener.
setupFirestoreListener(d, userId) ==
    [d EXCEPT !.listeners = @ \cup {userId}, !.snapshots = @ \cup {userId}]

\* The callback that starts: it has shown no message yet.
Quiet(p) == [p EXCEPT !.toast = <<>>]

Attempt(origin, kind) == [origin |-> origin, kind |-> kind]

\* A document the test.py client added earlier.
StoredTrade ==
    submit_tradeData("test.py", [id |-> "", pl |-> <<"7">>])

\* The collections when the page is opened: u1 has recorded one trade.
STORED == [userId \in USERS |-> IF userId = "u1" THEN "t1" :> StoredTrade
                                ELSE NoDocs]

\* The script has run to its end: the observer is registered, Firebase Auth
\* has not yet reported the initial state (no user), and the initial sign-in
\* attempt is in flight (src/test.py lines 480-487, src/test2.py lines 463-472).
InitClient ==
    /\ \E variant \in VARIANTS, initialAuthToken \in BOOLEAN :
          /\ page = [variant |-> variant,
                     initialAuthToken |-> initialAuthToken,
                     currentUserId |-> NoUser,
                     timers |-> {},
                     main_hidden |-> TRUE,
                     auth_hidden |-> TRUE,
                     journal |-> [userId |-> NoUser, trades |-> <<>>],
                     form |-> EmptyForm,
                     isEditing |-> FALSE,
                     modal |-> [display |-> FALSE, handlers |-> {}],
                     toast |-> <<>>,
                     sent |-> 0]
          /\ auth = [currentUser |-> NoUser,
                     attempts |-> {Attempt("initial",
                                           IF initialAuthToken THEN "token"
                                           ELSE "anonymous")},
                     initialized |-> FALSE,
                     rejected |-> FALSE,
                     anonymous |-> FALSE,
                     signing_out |-> FALSE]
    /\ db = [store |-> STORED, listeners |-> {}, snapshots |-> {},
             requests |-> {}]
    /\ DATA_FILE = EnsureDataFile(NoFile)
    /\ response = [method |-> "", status |-> 0]
    /\ data = <<>>
    /\ summary_data = NotCalled
    /\ summary_dom = [exc |-> "", dom |-> InitialDom]
    /\ rates = NoRates
    /\ handlers = NoHandlers

server == <<DATA_FILE, response, data, summary_data, rates, handlers>>

\* auth.onAuthStateChanged((user) => ...).  Firebase calls the observer
\* once with the initial state, before any sign-in resolves, and then in the
\* turn in which a sign-in or sign-out changes the user: what the observer
\* does to the page, to the listeners and to the sign-in attempts.
observer_page(p, user) ==
    IF user # NoUser THEN showApp([p EXCEPT !.currentUserId = user])
    ELSE IF p.variant = "test.py"
    THEN [showAuth(p) EXCEPT !.currentUserId = NoUser]
    ELSE [p EXCEPT !.currentUserId = NoUser]

observer_db(d, user) ==
    IF user # NoUser THEN setupFirestoreListener(d, user) ELSE d

observer_attempts(p, user) ==
    IF user = NoUser /\ p.variant = "test2.py"
    THEN {Attempt("observer",
                  IF p.initialAuthToken THEN "token" ELSE "anonymous")}
    ELSE {}

onAuthStateChanged ==
    /\ ~auth.initialized
    /\ auth' = [auth EXCEPT
                  !.initialized = TRUE,
                  !.attempts = @ \cup observer_attempts(page, NoUser)]
    /\ page' = observer_page(Quiet(page), NoUser)
    /\ db' = observer_db(db, NoUser)
    /\ UNCHANGED <<server, summary_dom>>

\* setTimeout(() => {...}, 300) of showApp and showAuth.
TimerFires(timer) ==
    /\ timer \in page.timers
    /\ page' = [Quiet(page) EXCEPT
                  !.timers = @ \ {timer},
                  !.main_hidden = IF timer = "showApp" THEN FALSE ELSE @,
                  !.auth_hidden = IF timer = "showAuth" THEN FALSE ELSE @]
    /\ UNCHANGED <<server, summary_dom, auth, db>>

\* A sign-in attempt succeeds with user.  The token signs in the user it
\* names; signInAnonymously() returns the signed-in user when that user is
\* anonymous and a new anonymous user otherwise; the popup signs in the
\* account the user picks.  The observer runs when the user changed; only
\* the popup has a then-handler.
SignInSucceeds(attempt, user) ==
    /\ auth.initialized
    /\ attempt \in auth.attempts
    /\ attempt.kind = "token" => user = TOKEN_USER
    /\ attempt.kind = "anonymous" /\ auth.currentUser # NoUser
          => IF auth.anonymous THEN user = auth.currentUser
             ELSE user # auth.currentUser
    /\ LET changed == user # auth.currentUser
           shown == IF attempt.kind = "popup"
                    THEN showToast(Quiet(page), "Signed in successfully!")
                    ELSE Quiet(page)
       IN  /\ auth' = [auth EXCEPT !.attempts = @ \ {attempt},
                                   !.currentUser = user,
                                   !.anonymous = (attempt.kind = "anonymous"),
                                   !.rejected = FALSE]
           /\ page' = IF changed THEN observer_page(shown, user) ELSE shown
           /\ db' = IF changed THEN observer_db(db, user) ELSE db
    /\ UNCHANGED <<server, summary_dom>>

\* A sign-in attempt is rejected: the catch handlers of the script.
SignInFails(attempt) ==
    /\ auth.initialized
    /\ attempt \in auth.attempts
    /\ auth' = [auth EXCEPT
                  !.rejected = TRUE,
                  !.attempts =
                     (@ \ {attempt}) \cup
                        (IF attempt.kind = "token"
                         THEN {Attempt(attempt.origin, "anonymous")}
                         ELSE {})]
    /\ page' =
          IF attempt.kind = "popup"
          THEN showToast(Quiet(page), "Sign-in failed. Please try again.")
          ELSE IF attempt = Attempt("observer", "anonymous")
          THEN showAuth(Quiet(page))
          ELSE Quiet(page)
    /\ UNCHANGED <<server, summary_dom, db>>

\* What the user can click: the buttons of a container that is shown and
\* not covered by the confirmation modal, or the buttons of the modal.  A
\* click that sends a request (popup sign-in, sign-out, add, update, delete)
\* counts against MaxRequests.
CanSend == page.sent < MaxRequests
MainUsable == ~page.main_hidden /\ ~page.modal.display
AuthUsable == ~page.auth_hidden /\ ~page.modal.display
ModalUsable == page.modal.display

Sent(p) == [p EXCEPT !.toast = <<>>, !.sent = @ + 1]

googleLoginBtn_click ==
    /\ AuthUsable
    /\ CanSend
    /\ Attempt("popup", "popup") \notin auth.attempts
    /\ auth' = [auth EXCEPT !.attempts = @ \cup {Attempt("popup", "popup")}]
    /\ page' = Sent(page)
    /\ UNCHANGED <<server, summary_dom, db>>

logoutBtn_click ==
    /\ MainUsable
    /\ CanSend
    /\ ~auth.signing_out
    /\ auth' = [auth EXCEPT !.signing_out = TRUE]
    /\ page' = Sent(page)
    /\ UNCHANGED <<server, summary_dom, db>>

\* auth.signOut() resolves: the then-handler of the logout button runs to
\* its last statement, updateSummary({}), and what that throws is caught by
\* the catch-handler of the same chain.
SignOutSucceeds ==
    /\ auth.signing_out
    /\ LET changed == auth.currentUser # NoUser
           observed == IF changed THEN observer_page(Quiet(page), NoUser)
                       ELSE Quiet(page)
           cleared ==
              [clearForm(showAuth(
                  [showToast(observed, "Signed out successfully!")
                     EXCEPT !.main_hidden = TRUE]))
                 EXCEPT !.journal.trades = <<>>]
           result == updateSummary(EmptyObject, summary_dom.dom)
       IN  /\ auth' = [auth EXCEPT
                         !.signing_out = FALSE,
                         !.currentUser = NoUser,
                         !.anonymous = FALSE,
                         !.attempts =
                            IF changed
                            THEN @ \cup observer_attempts(page, NoUser)
                            ELSE @]
           /\ summary_dom' = result
           /\ page' = IF result.exc = "" THEN cleared
                      ELSE showToast(cleared,
                                     "Sign-out failed. Please try again.")
    /\ UNCHANGED <<server, db>>

SignOutFails ==
    /\ auth.signing_out
    /\ auth' = [auth EXCEPT !.signing_out = FALSE]
    /\ page' = showToast(Quiet(page), "Sign-out failed. Please try again.")
    /\ UNCHANGED <<server, summary_dom, db>>

\* The snapshot callback of the listener registered for userId.
onSnapshot(userId) ==
    /\ userId \in db.snapshots
    /\ db' = [db EXCEPT !.snapshots = @ \ {userId}]
    /\ LET trades == SnapshotTrades(db.store[userId])
       IN  /\ page' = renderJournal(Quiet(page), userId, trades)
           /\ summary_dom' = updateSummary(Array(trades), summary_dom.dom)
    /\ UNCHANGED <<server, auth>>

Request(op, userId, id, trade) ==
    [op |-> op, userId |-> userId, id |-> id, trade |-> trade]

\* Documents the collection can still take: a new document gets an id no
\* stored document and no add request in flight has.
CanAdd(userId) ==
    Cardinality(DOMAIN db.store[userId])
       + Cardinality({r \in db.requests : r.op = "add" /\ r.userId = userId})
      < Len(IDS)

\* The submit handler and addOrUpdateTrade up to its await.  With no user
\* signed in auth.currentUser.uid throws: nothing is requested or shown.
tradeForm_submit(pl) ==
    /\ MainUsable
    /\ CanSend
    /\ LET form == [page.form EXCEPT !.pl = pl]
           trade == submit_tradeData(page.variant, form)
           userId == auth.currentUser
       IN  /\ page' = [Sent(page) EXCEPT !.form = form]
           /\ IF userId = NoUser
              THEN UNCHANGED db
              ELSE IF "id" \in DOMAIN trade
              THEN db' = [db EXCEPT
                            !.requests = @ \cup
                               {Request("set", userId, trade["id"], trade)}]
              ELSE /\ CanAdd(userId)
                   /\ db' = [db EXCEPT
                               !.requests = @ \cup
                                  {Request("add", userId, "", WithoutId(trade))}]
    /\ UNCHANGED <<server, summary_dom, auth>>

\* The messages of a request that succeeded, and of one that failed.
SuccessToast(op) ==
    CASE op = "set" -> "Trade updated successfully!"
      [] op = "add" -> "Trade added successfully!"
      [] op = "delete" -> "Trade deleted successfully!"

FailureToast(op) ==
    IF op = "delete" THEN "Failed to delete trade. Please try again."
    ELSE "Failed to save trade. Please try again."

\* The requests in flight after the catch block of a failed request ran.
\* The variant sends the request again.
AfterFailure_retrying(requests, request) == requests

AfterFailure(requests, request) == requests \ {request}

\* The store applies a request; the listeners of that collection are owed
\* a snapshot; the code after the await runs.
WriteSucceeds(request, id) ==
    /\ request \in db.requests
    /\ IF request.op = "add" THEN id \in FreeIds(db.store[request.userId])
       ELSE id = request.id
    /\ LET docs == db.store[request.userId]
           after == CASE request.op = "set" -> set(docs, id, request.trade)
                      [] request.op = "add" -> set(docs, id, request.trade)
                      [] request.op = "delete" -> delete(docs, id)
       IN  db' = [db EXCEPT
                    !.requests = @ \ {request},
                    !.store[request.userId] = after,
                    !.snapshots = @ \cup ({request.userId} \cap db.listeners)]
    /\ page' = LET shown == showToast(Quiet(page), SuccessToast(request.op))
               IN  IF request.op = "delete" THEN shown ELSE clearForm(shown)
    /\ UNCHANGED <<server, summary_dom, auth>>

WriteFails(request) ==
    /\ request \in db.requests
    /\ db' = [db EXCEPT !.requests = AfterFailure(@, request)]
    /\ page' = showToast(Quiet(page), FailureToast(request.op))
    /\ UNCHANGED <<server, summary_dom, auth>>

\* The Edit button of a rendered row: trades.find(t => t.id === tradeId) in
\* the array the row was rendered from.
editBtn_click(k) ==
    /\ MainUsable
    /\ k \in 1..Len(page.journal.trades)
    /\ page' = editTrade(Quiet(page), page.journal.trades[k])
    /\ UNCHANGED <<server, summary_dom, auth, db>>

cancelEditBtn_click ==
    /\ MainUsable
    /\ page.isEditing
    /\ page' = clearForm(Quiet(page))
    /\ UNCHANGED <<server, summary_dom, auth, db>>

\* The Delete button of a rendered row.  test.py opens the confirmation
\* modal and registers a confirm handler that holds the trade id and the
\* user id read at the click; test2.py asks window.confirm and issues the
\* request at once.
deleteBtn_click(k, confirmed) ==
    /\ MainUsable
    /\ k \in 1..Len(page.journal.trades)
    /\ LET tradeId == page.journal.trades[k]["id"]
           userId == auth.currentUser
       IN  IF userId = NoUser
           THEN page' = Quiet(page) /\ UNCHANGED db
           ELSE IF page.variant = "test.py"
           THEN /\ confirmed
                /\ page' = [Quiet(page) EXCEPT
                              !.modal = [display |-> TRUE,
                                         handlers |-> @.handlers \cup
                                            {[id |-> tradeId,
                                              userId |-> userId]}]]
                /\ UNCHANGED db
           ELSE /\ page' = IF confirmed THEN Sent(page) ELSE Quiet(page)
                /\ confirmed => CanSend
                /\ IF confirmed
                   THEN db' = [db EXCEPT
                                 !.requests = @ \cup
                                    {Request("delete", userId, tradeId,
                                             NoDocs)}]
                   ELSE UNCHANGED db
    /\ UNCHANGED <<server, summary_dom, auth>>

\* modalConfirmBtn.removeEventListener('click', confirmHandler), called by
\* the confirm handler itself and by the cancel handler registered with it:
\* the confirm handlers left on the button.  The variant leaves them.
removeEventListener_omitted(confirmHandlers) == confirmHandlers

removeEventListener(confirmHandlers) == {}

\* The Delete button of the modal: every confirm handler still registered
\* runs.
modalConfirmBtn_click ==
    /\ ModalUsable
    /\ CanSend
    /\ db' = [db EXCEPT
                !.requests = @ \cup
                   {Request("delete", h.userId, h.id, NoDocs) :
                      h \in page.modal.handlers}]
    /\ page' = [Sent(page) EXCEPT
                  !.modal = [display |-> FALSE,
                             handlers |-> removeEventListener(@.handlers)]]
    /\ UNCHANGED <<server, summary_dom, auth>>

modalCancelBtn_click ==
    /\ ModalUsable
    /\ page' = [Quiet(page) EXCEPT
                  !.modal = [display |-> FALSE,
                             handlers |-> removeEventListener(@.handlers)]]
    /\ UNCHANGED <<server, summary_dom, auth, db>>

NextClient ==
    \/ onAuthStateChanged
    \/ \E timer \in {"showApp", "showAuth"} : TimerFires(timer)
    \/ \E attempt \in auth.attempts, user \in USERS :
          SignInSucceeds(attempt, user)
    \/ \E attempt \in auth.attempts : SignInFails(attempt)
    \/ googleLoginBtn_click
    \/ logoutBtn_click
    \/ SignOutSucceeds
    \/ SignOutFails
    \/ \E userId \in USERS : onSnapshot(userId)
    \/ \E pl \in PL_INPUTS : tradeForm_submit(pl)
    \/ \E request \in db.requests, k \in 1..Len(IDS) :
          WriteSucceeds(request, IDS[k])
    \/ \E request \in db.requests : WriteFails(request)
    \/ \E k \in 1..Len(IDS) : editBtn_click(k)
    \/ cancelEditBtn_click
    \/ \E k \in 1..Len(IDS), confirmed \in BOOLEAN : deleteBtn_click(k, confirmed)
    \/ modalConfirmBtn_click
    \/ modalCancelBtn_click

SpecClient == InitClient /\ [][NextClient]_vars

\* What a step of onSnapshot(userId) does to the store's side: the snapshot
\* owed to the listener of userId is handed over.  No other action takes a
\* user out of db.snapshots.
SnapshotDelivered(userId) ==
    /\ userId \in db.snapshots
    /\ db' = [db EXCEPT !.snapshots = @ \ {userId}]

\* Firestore delivers the snapshots it owes to the listeners: a snapshot
\* that stays owed is eventually handed to its callback.
SpecClientDelivered ==
    SpecClient /\ \A userId \in USERS : WF_db(SnapshotDelivered(userId))

(***************************************************************************)
(* Properties.  What a P/L text denotes is written down here as a table,    *)
(* apart from the conversions of the code.                                  *)
(***************************************************************************)
Denotes(text) ==
    CASE text = <<"1", "0", "0">> -> 100
      [] text = <<"7">> -> 7
      [] text = <<"-", "5", "0">> -> -50
      [] text = <<"-", "3">> -> -3
      [] OTHER -> 0

\* The P/L of a record for aggregation: 0 when non-numeric or missing.
PLOf(rec) == IF COL_PL \in DOMAIN rec THEN Denotes(rec[COL_PL]) ELSE 0

Winners(d) == {i \in 1..Len(d) : PLOf(d[i]) > 0}
Losers(d) == {i \in 1..Len(d) : PLOf(d[i]) < 0}
Evens(d) == {i \in 1..Len(d) : PLOf(d[i]) = 0}

RECURSIVE SumOfPL(_)
SumOfPL(d) == IF d = <<>> THEN 0 ELSE PLOf(Head(d)) + SumOfPL(Tail(d))

MaxOf(S) == CHOOSE m \in S : \A x \in S : x <= m
MinOf(S) == CHOOSE m \in S : \A x \in S : x >= m

Called == summary_data.exc # "not called"
HasReturned == summary_data.exc = ""
AllCarryPL(d) == \A i \in 1..Len(d) : COL_PL \in DOMAIN d[i]
S == summary_data.value

\* C1: for every record list whose records carry a P/L (positive, negative,
\* zero or non-numeric) calculate_summary returns, and whenever it returns
\* the winning, losing and break-even counts add up to the total count,
\* which is the number of input records.
C1_CountsPartitionTotal ==
    Called =>
        /\ AllCarryPL(data) => HasReturned
        /\ HasReturned =>
            /\ S["Total Number of Winning Trades"]
                 + S["Total Number of Losing Trades"]
                 + S["Total Number of Break Even Trades"]
               = S["Total Number of Trades"]
            /\ S["Total Number of Trades"] = Len(data)

C1_Witness ==
    /\ HasReturned
    /\ data = <<RecordWith(<<"1", "0", "0">>), RecordWith(<<"a">>),
                RecordWith(<<"-", "5", "0">>)>>
    /\ S["Total Number of Break Even Trades"] = 1

\* C2: for every record list, calculate_summary returns a 'Total P/L' equal
\* to the sum of the records' P/L, a non-numeric or missing P/L counting 0.
C2_TotalIsSum ==
    Called => HasReturned /\ S["Total P/L"] = SumOfPL(data)

\* C2, on the calls that return: the total is that sum.
C2_TotalIsSumWhenReturned ==
    HasReturned => S["Total P/L"] = SumOfPL(data)

\* C3: on the empty list calculate_summary returns counts 0, both rates the
\* text "0.00", largest win 0, largest loss 0 and total P/L 0.
C3_EmptySummary ==
    Called /\ data = <<>> =>
        /\ HasReturned
        /\ DOMAIN S = {"Total Number of Trades",
                       "Total Number of Winning Trades",
                       "Total Number of Losing Trades",
                       "Total Number of Break Even Trades",
                       "Total Number of Win Rate in %",
                       "Total Number of Lose Rate in %",
                       "Largest Winning Trade", "Largest Losing Trade",
                       "Total P/L"}
        /\ S["Total Number of Trades"] = 0
        /\ S["Total Number of Winning Trades"] = 0
        /\ S["Total Number of Losing Trades"] = 0
        /\ S["Total Number of Break Even Trades"] = 0
        /\ S["Total Number of Win Rate in %"] = <<"0", ".", "0", "0">>
        /\ S["Total Number of Lose Rate in %"] = <<"0", ".", "0", "0">>
        /\ S["Largest Winning Trade"] = 0
        /\ S["Largest Losing Trade"] = 0
        /\ S["Total P/L"] = 0

C3_Witness == Called /\ data = <<>>

\* C4: the largest winning trade is the greatest P/L among the records with
\* P/L > 0, and 0 when there is none; the largest losing trade is the least
\* P/L among the records with P/L < 0, and 0 when there is none.
C4_LargestWinLoss ==
    Called =>
        /\ AllCarryPL(data) => HasReturned
        /\ HasReturned =>
            /\ S["Largest Winning Trade"] =
                 IF Winners(data) = {} THEN 0
                 ELSE MaxOf({PLOf(data[i]) : i \in Winners(data)})
            /\ S["Largest Losing Trade"] =
                 IF Losers(data) = {} THEN 0
                 ELSE MinOf({PLOf(data[i]) : i \in Losers(data)})

C4_Witness ==
    /\ HasReturned
    /\ data = <<RecordWith(<<"7">>), RecordWith(<<"1", "0", "0">>),
                RecordWith(<<"-", "3">>)>>
    /\ S["Largest Winning Trade"] = 100
    /\ S["Largest Losing Trade"] = -3

\* The number a two-decimal text stands for is >= 0 / <= 0.
NonNegativeText(t) == t # <<>> /\ t[1] # "-"
NonPositiveText(t) ==
    t # <<>> /\ (t[1] = "-" \/ \A i \in 1..Len(t) : t[i] \in {"0", "."})

DomCalled == summary_dom.exc # "not called"

\* C5: in the server-side summary and in the client-side summary, the
\* largest winning trade reported is >= 0 and the largest losing trade
\* reported is <= 0, for every record set.
C5_LargestSigns ==
    /\ HasReturned =>
        /\ S["Largest Winning Trade"] >= 0
        /\ S["Largest Losing Trade"] <= 0
    /\ Called /\ AllCarryPL(data) => HasReturned
    /\ DomCalled =>
        /\ summary_dom.exc = ""
        /\ NonNegativeText(summary_dom.dom["largest-win"])
        /\ NonPositiveText(summary_dom.dom["largest-loss"])

\* Only losers: both summaries computed, the largest win reported as zero.
C5_Witness ==
    /\ HasReturned
    /\ DomCalled
    /\ data = <<RecordWith(<<"-", "5", "0">>), RecordWith(<<"-", "3">>)>>
    /\ S["Largest Winning Trade"] = 0
    /\ summary_dom.dom["largest-win"] = <<"0", ".", "0", "0">>
    /\ summary_dom.dom["largest-loss"] = <<"-", "5", "0", ".", "0", "0">>

\* A text of the shape <digits>.<two digits>, and its value in hundredths.
TwoDecimals(t) ==
    /\ Len(t) >= 4
    /\ t[Len(t) - 2] = "."
    /\ \A i \in 1..Len(t) : i # Len(t) - 2 => t[i] \in Digit

InHundredths(t) ==
    100 * DigitsVal(SubSeq(t, 1, Len(t) - 3))
        + 10 * DigitVal(t[Len(t) - 1]) + DigitVal(t[Len(t)])

\* t is the two-decimal rendering nearest to 100 * count / total.
RendersRate(t, count, total) ==
    /\ TwoDecimals(t)
    /\ LET diff == InHundredths(t) * total - 10000 * count
       IN  2 * (IF diff < 0 THEN -diff ELSE diff) <= total

\* C6: for every non-empty record list with W winners and L losers out of T
\* records, the win rate is 100*W/T and the lose rate 100*L/T, each rendered
\* with exactly two decimals; P/L values [100, -50, 0] give win rate
\* "33.33"; each rate lies between 0.00 and 100.00 and their sum never
\* exceeds 100.
RatesRendered ==
    /\ RendersRate(rates.win_rate, rates.winning_trades, rates.total_trades)
    /\ RendersRate(rates.lose_rate, rates.losing_trades, rates.total_trades)
    /\ InHundredths(rates.win_rate) \in 0..10000
    /\ InHundredths(rates.lose_rate) \in 0..10000
    /\ (rates.winning_trades = 1 /\ rates.total_trades = 3
          => rates.win_rate = <<"3", "3", ".", "3", "3">>)

C6_Rates ==
    rates.called =>
        /\ RatesRendered
        /\ InHundredths(rates.win_rate) + InHundredths(rates.lose_rate)
             <= 10000

\* C6 as amended: the same, except that the sum of the two rendered rates
\* never exceeds 100.01.
C6_RatesRounded ==
    rates.called =>
        /\ RatesRendered
        /\ InHundredths(rates.win_rate) + InHundredths(rates.lose_rate)
             <= 10001

\* 49 winners and 111 losers out of 160: "30.63" and "69.38".
C6_Witness ==
    /\ rates.called
    /\ rates.winning_trades = 49
    /\ rates.losing_trades = 111
    /\ rates.total_trades = 160
    /\ rates.win_rate = <<"3", "0", ".", "6", "3">>
    /\ rates.lose_rate = <<"6", "9", ".", "3", "8">>

\* C6 on the record lists up to MaxLen: the rates calculate_summary returns
\* are those of the winners and losers among the records.
C6_RatesOfLists ==
    HasReturned /\ data # <<>> =>
        LET win == S["Total Number of Win Rate in %"]
            lose == S["Total Number of Lose Rate in %"]
        IN  /\ RendersRate(win, Cardinality(Winners(data)), Len(data))
            /\ RendersRate(lose, Cardinality(Losers(data)), Len(data))
            /\ data = <<RecordWith(<<"1", "0", "0">>),
                        RecordWith(<<"-", "5", "0">>), RecordWith(<<"0">>)>>
               => win = <<"3", "3", ".", "3", "3">>

\* C7: a record whose P/L is non-numeric or missing never makes
\* calculate_summary fail: the summary is returned and the record is
\* counted as a break-even trade, not as a winner or a loser.
C7_NeverFails ==
    Called =>
        /\ HasReturned
        /\ S["Total Number of Winning Trades"] = Cardinality(Winners(data))
        /\ S["Total Number of Losing Trades"] = Cardinality(Losers(data))
        /\ S["Total Number of Break Even Trades"] = Cardinality(Evens(data))

\* C7, on the lists in which at least one record holds the P/L key.
C7_NeverFailsWhenSomeCarryPL ==
    Called /\ (\E i \in 1..Len(data) : COL_PL \in DOMAIN data[i]) =>
        /\ HasReturned
        /\ S["Total Number of Winning Trades"] = Cardinality(Winners(data))
        /\ S["Total Number of Losing Trades"] = Cardinality(Losers(data))
        /\ S["Total Number of Break Even Trades"] = Cardinality(Evens(data))

HoldsHeader(file) == file.exists /\ file.rows # <<>> /\ file.rows[1] = HEADER

\* The text is the decimal numeral of k.
IsNumeral(t, k) ==
    /\ t # <<>>
    /\ AllDigits(t)
    /\ (Len(t) > 1 => t[1] # "0")
    /\ DigitsVal(t) = k

\* C9: after any sequence of POST / requests on a store that holds the
\* header row, the k-th stored row has Sl No. k, so the Sl No. values are
\* pairwise distinct and strictly increasing in file order.
C9_SlNoSequence ==
    HoldsHeader(DATA_FILE) =>
        LET journal == get_journal_data(DATA_FILE)
        IN  /\ Len(journal) = Len(DATA_FILE.rows) - 1
            /\ \A k \in 1..Len(journal) :
                  /\ IsNumeral(DATA_FILE.rows[k + 1][1], k)
                  /\ IsNumeral(journal[k][COL_SL_NO], k)
            /\ \A a, b \in 1..Len(journal) :
                  a < b =>
                    /\ journal[a][COL_SL_NO] # journal[b][COL_SL_NO]
                    /\ DigitsVal(journal[a][COL_SL_NO])
                         < DigitsVal(journal[b][COL_SL_NO])

C9_Witness ==
    /\ HoldsHeader(DATA_FILE)
    /\ Len(DATA_FILE.rows) = 4
    /\ response = [method |-> "POST", status |-> 302]
    /\ get_journal_data(DATA_FILE)[3][COL_SL_NO] = <<"3">>

\* The record at place i of the list holds every submitted value under the
\* column it was submitted for.
IsSubmitted(rec, form) ==
    \A j \in 1..Len(FORM_FIELDS) :
        /\ HEADER[j + 1] \in DOMAIN rec
        /\ rec[HEADER[j + 1]] = form[FORM_FIELDS[j]]

RoundTrip(form) ==
    LET before == get_journal_data(DATA_FILE)
        after == get_journal_data(DATA_FILE')
    IN  \E i \in 1..Len(after) :
            /\ IsSubmitted(after[i], form)
            /\ COL_SL_NO \in DOMAIN after[i]
            /\ \A b \in 1..Len(before) :
                  COL_SL_NO \in DOMAIN before[b]
                    => after[i][COL_SL_NO] # before[b][COL_SL_NO]

\* C10: from every reachable store state, the state in which the data file
\* does not exist included, a POST / followed by get_journal_data returns a
\* list that contains the submitted record, with a Sl No. that differs from
\* the Sl No. of every record stored before it.
C10_RoundTrip ==
    [][\A s \in SCRIPT_NAMES, pl \in FORM_PL :
          index_POST(FullForm(s, pl)) => RoundTrip(FullForm(s, pl))]_vars

\* C10, from the store states that hold the header row.
C10_RoundTripWithHeader ==
    [][\A s \in SCRIPT_NAMES, pl \in FORM_PL :
          index_POST(FullForm(s, pl)) /\ HoldsHeader(DATA_FILE)
            => RoundTrip(FullForm(s, pl))]_vars

\* The forms POST / is given: complete, or with one field missing.
FORMS ==
    {FullForm(s, pl) : s \in SCRIPT_NAMES, pl \in FORM_PL}
        \cup {Without(FullForm(TCS, <<"1", "0", "0">>), FORM_FIELDS[j]) :
                 j \in 1..Len(FORM_FIELDS)}

\* rows is what the file held and it now holds n more rows after them.
Appended(before, after, n) ==
    /\ Len(after.rows) = Len(before.rows) + n
    /\ \A k \in 1..Len(before.rows) : after.rows[k] = before.rows[k]

\* C11: the store is append-only: a GET / leaves the stored rows unchanged,
\* and a POST / leaves every previously stored row unchanged and in the same
\* position while adding exactly one row at the end (none when the request
\* is refused with status 400); no request removes or rewrites a row.
C11_AppendOnly ==
    [][/\ index_GET => DATA_FILE' = DATA_FILE
       /\ \A form \in FORMS :
             index_POST(form) =>
                /\ response'.status \in {302, 400}
                /\ response'.status = 302
                     => /\ Appended(DATA_FILE, DATA_FILE', 1)
                        /\ DATA_FILE'.rows[Len(DATA_FILE'.rows)]
                             = new_entry(next_sl_no(DATA_FILE), form)
                /\ response'.status = 400 => DATA_FILE' = DATA_FILE]_vars

\* A third row has been appended after the header and two rows.
C11_Witness ==
    /\ response = [method |-> "POST", status |-> 302]
    /\ HoldsHeader(DATA_FILE)
    /\ Len(DATA_FILE.rows) = 4
    /\ DATA_FILE.rows[2][1] = <<"1">>
    /\ DATA_FILE.rows[4][1] = <<"3">>

\* C12: if the data file does not exist, get_journal_data returns an empty
\* list without raising, and a GET / in that state computes the all-zero
\* summary and answers 200 rather than entering an error state.
C12_MissingFile ==
    [][index_GET /\ ~DATA_FILE.exists =>
          /\ get_journal_data(DATA_FILE) = <<>>
          /\ data' = <<>>
          /\ summary_data' = Returned(EMPTY_SUMMARY)
          /\ response' = [method |-> "GET", status |-> 200]
          /\ ~DATA_FILE'.exists]_vars

C12_Witness ==
    /\ ~DATA_FILE.exists
    /\ response = [method |-> "GET", status |-> 200]
    /\ data = <<>>
    /\ summary_data = Returned(EMPTY_SUMMARY)

\* The Sl No. values of the stored rows, header excluded, in file order.
SlNos(file) == [k \in 1..(Len(file.rows) - 1) |-> file.rows[k + 1][1]]

\* C13: two POST / handlers that run without locking each read the row count
\* and then append: the row a handler appends carries the Sl No. it computed
\* from the count it read, whatever has been appended since, so that a
\* handler that appends while a row with its Sl No. is already stored, or
\* while the other handler holds the same Sl No., leaves two rows with the
\* same Sl No.
C13_SameSlNo ==
    [][\A h \in HANDLERS :
          POST_Append(h) =>
            LET mine == str(handlers[h].sl_no)
                before == SlNos(DATA_FILE)
                after == SlNos(DATA_FILE')
            IN  /\ HoldsHeader(DATA_FILE)
                /\ Len(after) = Len(before) + 1
                /\ after[Len(after)] = mine
                /\ (\E k \in 1..Len(before) : before[k] = mine)
                     => \E a, b \in 1..Len(after) :
                           a # b /\ after[a] = after[b]
                /\ \A g \in HANDLERS \ {h} :
                      handlers[g].pc = "append"
                         /\ handlers[g].sl_no = handlers[h].sl_no
                      => /\ handlers'[g] = handlers[g]
                         /\ after[Len(after)] = str(handlers'[g].sl_no)]_vars

\* Both handlers read the count of the empty journal before either wrote:
\* the two stored rows carry Sl No. 1.
C13_Witness ==
    /\ HoldsHeader(DATA_FILE)
    /\ Len(DATA_FILE.rows) = 3
    /\ SlNos(DATA_FILE) = <<(<<"1">>), (<<"1">>)>>
    /\ InFlight = {}

\* Place of a column in the header row written at start-up.
PlaceOf(column) == CHOOSE k \in 1..Len(HEADER) : HEADER[k] = column

\* C14: every row written by POST / has exactly 14 values, in the column
\* order of the 14-column header row written at start-up (Sl No. first,
\* P/L thirteenth, the rule-compliance column last), so that from a store
\* that holds that header each value is read back by get_journal_data under
\* the column it was submitted for.
C14_ColumnOrder ==
    [][\A s \in SCRIPT_NAMES, pl \in FORM_PL :
          index_POST(FullForm(s, pl)) =>
            LET form == FullForm(s, pl)
                row == DATA_FILE'.rows[Len(DATA_FILE'.rows)]
                journal == get_journal_data(DATA_FILE')
            IN  /\ Len(HEADER) = 14
                /\ Len(row) = 14
                /\ PlaceOf(COL_SL_NO) = 1
                /\ PlaceOf(COL_PL) = 13
                /\ PlaceOf(COL_FOLLOW_RULES) = 14
                /\ row[1] = str(next_sl_no(DATA_FILE))
                /\ \A f \in DOMAIN form : row[PlaceOf(COLUMN_OF[f])] = form[f]
                /\ HoldsHeader(DATA_FILE) =>
                      /\ journal # <<>>
                      /\ DOMAIN journal[Len(journal)]
                            = {HEADER[k] : k \in 1..Len(HEADER)}
                      /\ journal[Len(journal)][COL_SL_NO] = row[1]
                      /\ \A f \in DOMAIN form :
                            journal[Len(journal)][COLUMN_OF[f]] = form[f]]_vars

C14_Witness ==
    /\ response = [method |-> "POST", status |-> 302]
    /\ HoldsHeader(DATA_FILE)
    /\ Len(DATA_FILE.rows) = 3
    /\ Len(DATA_FILE.rows[3]) = 14
    /\ get_journal_data(DATA_FILE)[2][COL_PL] = <<"-", "5", "0">>
    /\ get_journal_data(DATA_FILE)[2][COL_RR] = <<"1", ":", "2">>

\* C15: the records in the journal table and behind the summary are records
\* of the currently signed-in user: while a user is signed in, no record
\* stored under a different user id is rendered.
C15_OwnRecordsOnly ==
    auth.currentUser # NoUser /\ page.journal.trades # <<>>
        => page.journal.userId = auth.currentUser

\* The fields of the form the submit handler of the page reads.
SUBMITTED_FIELDS == TEXT_FIELDS(page.variant) \cup NUMBER_FIELDS(page.variant)

\* C16: a successful edit submission replaces the whole stored document for
\* that id: the request carries exactly the fields of the submitted form
\* plus the id, and once it succeeded the stored document is the submitted
\* one, with no field of the previous version kept.
C16_EditReplaces ==
    [][/\ \A pl \in PL_INPUTS :
             tradeForm_submit(pl) /\ page.form.id # ""
                /\ auth.currentUser # NoUser =>
                \E request \in db'.requests :
                    /\ db'.requests = db.requests \cup {request}
                    /\ request.op = "set"
                    /\ request.userId = auth.currentUser
                    /\ request.id = page.form.id
                    /\ DOMAIN request.trade = SUBMITTED_FIELDS \cup {"id"}
                    /\ request.trade["id"] = page.form.id
                    /\ request.trade["pl"] = parseFloat(pl)
                    /\ request.trade["script_name"] = FORM_INPUTS["script_name"]
       /\ \A request \in db.requests :
             WriteSucceeds(request, request.id) /\ request.op = "set" =>
                /\ request.id \in DOMAIN db'.store[request.userId]
                /\ db'.store[request.userId][request.id] = request.trade
                /\ DOMAIN db'.store[request.userId][request.id]
                     = SUBMITTED_FIELDS \cup {"id"}]_vars

\* The test2.py client has updated the trade the test.py client stored: the
\* document holds the six submitted fields and the id, and no date.
C16_Witness ==
    /\ page.variant = "test2.py"
    /\ page.toast = <<"Trade updated successfully!">>
    /\ "t1" \in DOMAIN db.store["u1"]
    /\ DOMAIN db.store["u1"]["t1"]
          = {"script_name", "long_short", "entry_price", "exit_price", "pl",
             "follow_rules", "id"}
    /\ db.store["u1"]["t1"]["pl"] = Num(-50)

\* C17: an edit submission changes only the document whose id is in the
\* hidden id field: it never creates a document and never removes one, so
\* the collection holds the same document ids before and after it.
C17_EditKeepsCount ==
    [][\A request \in db.requests :
          WriteSucceeds(request, request.id) /\ request.op = "set" =>
             DOMAIN db'.store[request.userId]
                = DOMAIN db.store[request.userId]]_vars

FAILURE_NOTIFICATIONS ==
    {"Failed to save trade. Please try again.",
     "Failed to delete trade. Please try again."}

\* C18: when an add, update or delete request fails, exactly one failure
\* notification is shown, the store is left as it was and the request is
\* not sent again: a request is only ever issued by a click of the user.
C18_NoRetry ==
    [][/\ \A request \in db.requests :
             WriteFails(request) =>
                /\ Len(page'.toast) = 1
                /\ page'.toast[1] \in FAILURE_NOTIFICATIONS
                /\ db'.requests = db.requests \ {request}
                /\ db'.store = db.store
       /\ db'.requests \ db.requests # {} => page'.sent = page.sent + 1]_vars

C18_Witness ==
    /\ page.toast = <<"Failed to save trade. Please try again.">>
    /\ page.sent = 1
    /\ db.requests = {}
    /\ db.store = STORED

\* C19: whenever sign-in attempts have failed and no user is signed in
\* (every attempt resolved, the last one rejected, no show timer pending),
\* the main application container is not shown and the authentication
\* prompt is shown.
C19_PromptWhenSignInFailed ==
    /\ auth.initialized
    /\ auth.currentUser = NoUser
    /\ auth.rejected
    /\ auth.attempts = {}
    /\ ~auth.signing_out
    /\ page.timers = {}
    => page.main_hidden /\ ~page.auth_hidden

\* The table and the summary show the collection of the signed-in user.
ShowsCurrentTrades ==
    auth.currentUser # NoUser =>
        LET trades == SnapshotTrades(db.store[auth.currentUser])
        IN  /\ page.journal.trades = trades
            /\ summary_dom.dom = updateSummary(Array(trades), InitialDom).dom

WriteSucceeded ==
    /\ page.toast # <<>>
    /\ page.toast[1] \in {"Trade added successfully!",
                           "Trade updated successfully!",
                           "Trade deleted successfully!"}

\* C20: after every successful add, update or delete, provided the snapshot
\* notifications are delivered, the page reaches a state in which no
\* notification is outstanding and the journal table and the summary equal
\* the current contents of the signed-in user's trades collection.
C20_EventuallyCurrent ==
    WriteSucceeded ~> (db.snapshots = {} /\ ShowsCurrentTrades)

\* The same holds on every page that registered no listener but the one of
\* the signed-in user.
C20_EventuallyCurrentWithOneListener ==
    WriteSucceeded ~>
        (db.snapshots = {}
           /\ (db.listeners = {auth.currentUser} => ShowsCurrentTrades))

\* The forms that lack exactly one of the 13 fields.
PARTIAL_FORMS ==
    {Without(FullForm(TCS, <<"1", "0", "0">>), FORM_FIELDS[j]) :
        j \in 1..Len(FORM_FIELDS)}

\* C30: a POST / that lacks any one of the 13 form fields is rejected before
\* anything is written: the response is 400, the data file is left as it
\* was and no row with a partial record is appended.
C30_RejectedBeforeWrite ==
    [][\A form \in PARTIAL_FORMS :
          index_POST(form) =>
             /\ response'.status = 400
             /\ DATA_FILE' = DATA_FILE]_vars

\* A request has been refused while the journal held a header and two rows,
\* each of 14 cells.
C30_Witness ==
    /\ response = [method |-> "POST", status |-> 400]
    /\ HoldsHeader(DATA_FILE)
    /\ Len(DATA_FILE.rows) = 3
    /\ \A k \in 1..3 : Len(DATA_FILE.rows[k]) = 14

\* No click has sent a request yet: the page is at start-up.
AtStartUp == page.sent = 0

\* The attempts a step starts.
Started == auth'.attempts \ auth.attempts

\* The user signed in at start-up by the custom token.
TokenSignedIn ==
    AtStartUp /\ auth.currentUser # NoUser /\ ~auth.anonymous

\* C21: at start-up, anonymous sign-in is attempted only when no initial
\* token is available or after the custom-token sign-in has failed, and
\* once the custom-token sign-in has succeeded no anonymous sign-in is
\* attempted.
C21_AnonymousOnlyAsFallback ==
    [][AtStartUp =>
         /\ \A a \in Started :
               a.kind = "anonymous" =>
                  \/ ~page.initialAuthToken
                  \/ SignInFails(Attempt(a.origin, "token"))
         /\ TokenSignedIn => \A a \in Started : a.kind # "anonymous"]_vars

\* Every anonymous sign-in of start-up is the only attempt of a page without
\* token or the fallback of a custom-token sign-in that failed, and the
\* custom-token sign-in that succeeds starts no attempt.
C21_FallbackOfFailedAttempt ==
    [][AtStartUp =>
         /\ \A a \in Started :
               a.kind = "anonymous" =>
                  \/ ~page.initialAuthToken
                  \/ SignInFails(Attempt(a.origin, "token"))
         /\ \A a \in auth.attempts :
               a.kind = "token" /\ SignInSucceeds(a, TOKEN_USER)
                  => Started = {}]_vars

C23_WinRateAgrees ==
    rates.called => rates.win_rate = rates.winRate

\* The P/L texts that are numbers.
NUMERIC_PL_TEXTS ==
    {<<"1", "0", "0">>, <<"7">>, <<"-", "5", "0">>, <<"-", "3">>, <<"0">>}

\* On the record lists of up to MaxLen numeric P/L values the two summaries
\* agree on every figure the claim names.
C23_AgreeOnShortLists ==
    /\ summary_data.exc = ""
    /\ summary_dom.exc = ""
    /\ \A i \in 1..Len(data) :
          COL_PL \in DOMAIN data[i] /\ data[i][COL_PL] \in NUMERIC_PL_TEXTS
    => LET value == summary_data.value
           dom == summary_dom.dom
       IN  /\ dom["total-trades"] = str(value["Total Number of Trades"])
           /\ dom["win-rate"] = value["Total Number of Win Rate in %"] \o <<"%">>
           /\ dom["total-pl"] = toFixed(FromInt(value["Total P/L"]))
           /\ dom["largest-win"] = toFixed(FromInt(value["Largest Winning Trade"]))
           /\ dom["largest-loss"] = toFixed(FromInt(value["Largest Losing Trade"]))

\* C24: after a successful sign-out the journal table is cleared and the
\* summary is cleared: the summary elements hold their zero values.
C24_SignOutClears ==
    [][SignOutSucceeds =>
          /\ page'.journal.trades = <<>>
          /\ summary_dom'.dom = InitialDom]_vars

\* C25: the 'Sign-out failed. Please try again.' notification is shown only
\* when the sign-out request was rejected; a sign-out that succeeds ends
\* with the 'Signed out successfully!' notification alone.
C25_SignOutNotification ==
    [][/\ SignOutSucceeds => page'.toast = <<"Signed out successfully!">>
       /\ SignOutFails
             => page'.toast = <<"Sign-out failed. Please try again.">>]_vars

\* C26: if no user is signed in when the trade form is submitted, no write
\* request is sent and the 'Please sign in to add or edit trades.'
\* notification is shown.
C26_SubmitWithoutUser ==
    [][\A pl \in PL_INPUTS :
          tradeForm_submit(pl) /\ auth.currentUser = NoUser =>
             /\ db'.requests = db.requests
             /\ page'.toast = <<"Please sign in to add or edit trades.">>]_vars

\* The same submission sends no request, whatever it shows.
C26_NoRequestWithoutUser ==
    [][\A pl \in PL_INPUTS :
          tradeForm_submit(pl) /\ auth.currentUser = NoUser =>
             db'.requests = db.requests]_vars

\* A save, an add or an update, has succeeded in this step.
SaveSucceeds ==
    \E request \in db.requests, k \in 1..Len(IDS) :
        request.op # "delete" /\ WriteSucceeds(request, IDS[k])

\* C27: the form leaves edit mode (hidden id emptied, isEditing false) only
\* after a successful save, a Cancel Edit click or a logout; a failed save
\* leaves the hidden id, the field values and the edit mode unchanged; and
\* a submit made in add mode never overwrites an existing document.
C27_EditMode ==
    [][/\ page'.isEditing = (page'.form.id # "")
       /\ page.isEditing /\ ~page'.isEditing
             => SaveSucceeds \/ cancelEditBtn_click \/ SignOutSucceeds
       /\ \A request \in db.requests :
             WriteFails(request) =>
                /\ page'.form = page.form
                /\ page'.isEditing = page.isEditing
       /\ \A pl \in PL_INPUTS :
             tradeForm_submit(pl) /\ ~page.isEditing
                /\ auth.currentUser # NoUser =>
                \E request \in db'.requests :
                    /\ db'.requests = db.requests \cup {request}
                    /\ request.op = "add"
                    /\ "id" \notin DOMAIN request.trade
       /\ \A request \in db.requests, k \in 1..Len(IDS) :
             WriteSucceeds(request, IDS[k]) /\ request.op = "add" =>
                /\ IDS[k] \notin DOMAIN db.store[request.userId]
                /\ \A id \in DOMAIN db.store[request.userId] :
                      db'.store[request.userId][id]
                         = db.store[request.userId][id]]_vars

\* An update has failed and the form is still editing the trade.
C27_Witness ==
    /\ page.toast = <<"Failed to save trade. Please try again.">>
    /\ page.isEditing
    /\ page.form.id = "t1"
    /\ page.form.pl = <<"-", "5", "0">>
    /\ db.requests = {}

\* C28: on the page whose observer signs in on a null user (test2.py), a
\* successful logout leaves the user signed out until the user clicks the
\* sign-in button: the logout signs the user out and starts no sign-in, and
\* a user is signed in again only by the popup.
C28_StaysSignedOut ==
    [][page.variant = "test2.py" =>
         /\ SignOutSucceeds =>
               /\ auth'.currentUser = NoUser
               /\ \A a \in Started : a.kind = "popup"
         /\ ~AtStartUp /\ auth.currentUser = NoUser
               /\ auth'.currentUser # NoUser
               => SignInSucceeds(Attempt("popup", "popup"),
                                 auth'.currentUser)]_vars

\* C29: in every reachable state at most one of the authentication
\* container and the main application container is visible.
C29_OneContainerVisible ==
    page.main_hidden \/ page.auth_hidden

====
